---------------------------- MODULE Spec2Model ----------------------------
(***************************************************************************)
(* A model of the WhatsApp assistant: the reminder store and the set_reminder *)
(* tool (src/src/agent/tools/reminder.js), the reminder-processing run and  *)
(* the conversation history (src/src/services/whatsapp.js).                 *)
(*                                                                         *)
(* Time is the JavaScript clock in milliseconds.  A Date is a record        *)
(* [valid, ms]; the Invalid Date is InvalidDate, and every comparison with  *)
(* it is false, as in JavaScript (NaN <= x is false).                       *)
(***************************************************************************)
EXTENDS Integers, Sequences, FiniteSets, TLC

VARIABLES
    now,                  \* the system clock, in ms
    reminders,            \* the Map `reminders`, its entries in insertion order
    nextObj,              \* identity of the next reminder object allocated
    calls,                \* number of set_reminder calls made so far
    runs,                 \* the invocations of processPendingReminders
    sentCount,            \* per reminder object: successful transport deliveries
    last,                 \* the last operation called and what it returned
    conversationHistory,  \* the Map `conversationHistory`: key -> array reference
    arrays,               \* the heap of history arrays, by reference
    handlers,             \* the invocations of handleIncomingMessage
    nextEvent,            \* number of the next inbound event
    turnLog,              \* per sender key: every entry ever pushed, in order
    out,                  \* a call of sendWhatsAppMessage: its text, chunks and transport calls
    summaries,            \* the invocations of sendDailyReminders
    env,                  \* process.env: the configured CRON_SECRET and TAVILY_API_KEY
    notes,                \* the Map `notes`, its entries in insertion order
    remoteCalls           \* number of requests made to the search and calendar services

vars == <<now, reminders, nextObj, calls, runs, sentCount, last, conversationHistory, arrays, handlers, nextEvent, turnLog,
          out, summaries, env, notes, remoteCalls>>

remVars == <<reminders, nextObj, calls, runs, sentCount>>
chatVars == <<conversationHistory, arrays, handlers, nextEvent, turnLog>>
sendVars == <<out>>
cronVars == <<summaries, env>>
toolVars == <<notes, remoteCalls>>

-----------------------------------------------------------------------------
(* Bounds of the model *)

\* steps the clock makes, each of one ms or of one minute
MaxTicks == 2

\* characters of the longest text given to splitMessage
MaxTextLen == 5

\* the largest maxLength given to splitMessage (the program passes 1500)
MaxChunkLen == 3

\* authorized requests to /cron/daily-summary
MaxSummaries == 1
\* set_reminder calls and invocations of processPendingReminders, together
MaxOps == 3
\* inbound events dispatched to handleIncomingMessage
MaxEvents == 2
\* completed turns a sender's history may already hold when the events arrive
MaxPriorTurns == 10

(* Program constants *)

\* date-fns addMinutes / addHours / addDays, in ms
MinuteMs == 60000
HourMs == 3600000
DayMs == 86400000
\* whatsapp.js 91-92: the history keeps its last 20 entries
MAX_HISTORY == 20

-----------------------------------------------------------------------------
(* Dates *)

InvalidDate == [valid |-> FALSE, ms |-> 0]

Date(t) == [valid |-> TRUE, ms |-> t]

\* a <= b on Dates: false when either is the Invalid Date
DateLE(a, b) == a.valid /\ b.valid /\ a.ms <= b.ms

\* date-fns add*: adds amount units to a date, an Invalid Date stays invalid
addMs(d, amount, unit) == IF d.valid THEN Date(d.ms + amount * unit) ELSE d

addMinutes(d, amount) == addMs(d, amount, MinuteMs)

addHours(d, amount) == addMs(d, amount, HourMs)

addDays(d, amount) == addMs(d, amount, DayMs)

\* new Date(specificTime): the strings the model passes and what they parse to
ParseDate(s) ==
    CASE s = "1970-01-01T00:00:00.000Z" -> Date(0)
      [] s = "1970-01-01T00:01:00.000Z" -> Date(MinuteMs)
      [] OTHER -> InvalidDate

\* date-fns format(date, pattern) throws RangeError on an Invalid Date
FormatThrows(d) == ~d.valid

-----------------------------------------------------------------------------
(* The Map `reminders`: a sequence of entries [id, message, triggerAt,      *)
(* createdAt, sent, obj] in insertion order; obj is the object's identity.  *)

MapHas(m, id) == \E k \in 1..Len(m) : m[k].id = id

MapIndex(m, id) == CHOOSE k \in 1..Len(m) : m[k].id = id

\* the keys of the Map
StoredIds(m) == {m[k].id : k \in 1..Len(m)}

\* Map.prototype.set: replaces the value of an existing key in place
MapSet(m, id, v) ==
    IF MapHas(m, id) THEN [m EXCEPT ![MapIndex(m, id)] = v] ELSE Append(m, v)

\* JavaScript truthiness of an optional number: present and not 0
Truthy(delays, k) == k \in DOMAIN delays /\ delays[k] # 0

\* a due time in which the first supplied offset overrides the others
TriggerAtFirstOffsetOnly(args, t1) ==
    IF args.specificTime # ""
    THEN ParseDate(args.specificTime)
    ELSE IF Truthy(args.delays, "delayMinutes") THEN addMinutes(Date(t1), args.delays["delayMinutes"])
         ELSE IF Truthy(args.delays, "delayHours") THEN addHours(Date(t1), args.delays["delayHours"])
         ELSE IF Truthy(args.delays, "delayDays") THEN addDays(Date(t1), args.delays["delayDays"])
         ELSE Date(t1)

\* reminder.js 24-33: the due time
TriggerAt(args, t1) ==
    IF args.specificTime # ""
    THEN ParseDate(args.specificTime)
    ELSE LET a == Date(t1)
             b == IF Truthy(args.delays, "delayMinutes") THEN addMinutes(a, args.delays["delayMinutes"]) ELSE a
             c == IF Truthy(args.delays, "delayHours") THEN addHours(b, args.delays["delayHours"]) ELSE b
         IN IF Truthy(args.delays, "delayDays") THEN addDays(c, args.delays["delayDays"]) ELSE c

\* an id no reminder has: the reminderId of a failure payload
NoId == -1

\* the reminder object of lines 37-43; its id stands for `rem_${id}`
NewReminder(id, args, trig, t3, obj) ==
    [id |-> id, message |-> args.message, triggerAt |-> trig,
     createdAt |-> Date(t3), sent |-> FALSE, obj |-> obj]

\* a tool function whose catch is missing: the RangeError of format reaches the caller
ReminderFuncNoCatch(store, args, t1, t2, t3, obj) ==
    LET trig == TriggerAt(args, t1)
        stored == MapSet(store, t2, NewReminder(t2, args, trig, t3, obj))
    IN [store |-> stored,
        result |-> [success |-> ~FormatThrows(trig), reminderId |-> IF FormatThrows(trig) THEN NoId ELSE t2,
                    error |-> ""],
        threw |-> FormatThrows(trig)]

\* reminder.js 22-56, reminderTool.func: t1, t2, t3 are the three clock reads
\* (new Date() at 29, Date.now() at 35, new Date() at 41).  The reminder is
\* stored (37-43) before format (51) can throw; the catch (53-55) turns the
\* error into the failure payload, so nothing is thrown to the caller.
ReminderFunc(store, args, t1, t2, t3, obj) ==
    LET trig == TriggerAt(args, t1)
        stored == MapSet(store, t2, NewReminder(t2, args, trig, t3, obj))
    IN IF FormatThrows(trig)
       THEN [store |-> stored,
             result |-> [success |-> FALSE, reminderId |-> NoId, error |-> "Invalid time value"],
             threw |-> FALSE]
       ELSE [store |-> stored,
             result |-> [success |-> TRUE, reminderId |-> t2, error |-> ""],
             threw |-> FALSE]

\* a scan that forgets the sent flag
getPendingRemindersIgnoringSent(m, t) ==
    SelectSeq(m, LAMBDA r : DateLE(r.triggerAt, Date(t)))

RECURSIVE PendingFrom(_, _, _)
\* reminder.js 64-68: the loop over the Map's entries from entry k on
PendingFrom(m, t, k) ==
    IF k > Len(m) THEN <<>>
    ELSE (IF ~m[k].sent /\ DateLE(m[k].triggerAt, Date(t)) THEN <<m[k]>> ELSE <<>>)
         \o PendingFrom(m, t, k + 1)

\* reminder.js 60-71, getPendingReminders at clock t
getPendingReminders(m, t) == PendingFrom(m, t, 1)

\* a mark that leaves the flag as it is
markReminderSentNoop(m, id) == [store |-> m, threw |-> FALSE]

\* a mark that flips the flag instead of setting it
markReminderSentToggle(m, id) ==
    IF MapHas(m, id)
    THEN [store |-> [m EXCEPT ![MapIndex(m, id)].sent = ~m[MapIndex(m, id)].sent], threw |-> FALSE]
    ELSE [store |-> m, threw |-> FALSE]

\* reminder.js 74-79, markReminderSent: the store after the call, and whether it threw
markReminderSent(m, id) ==
    IF MapHas(m, id)
    THEN [store |-> [m EXCEPT ![MapIndex(m, id)].sent = TRUE], threw |-> FALSE]
    ELSE [store |-> m, threw |-> FALSE]

-----------------------------------------------------------------------------
(* The conversation history (whatsapp.js 21, 78-94) *)

\* the sender keys of the model
Keys == {"whatsapp:+1", "whatsapp:+2"}

\* no array: conversationHistory.get(from) is undefined
NoRef == 0

\* a history that is never trimmed
TrimNever(h) == h

\* a trim that drops from the back: the oldest MAX_HISTORY entries stay
TrimKeepOldest(h) == IF Len(h) > MAX_HISTORY THEN SubSeq(h, 1, MAX_HISTORY) ELSE h

\* whatsapp.js 91-93: history.splice(0, history.length - 20)
Trim(h) == IF Len(h) > MAX_HISTORY THEN SubSeq(h, Len(h) - MAX_HISTORY + 1, Len(h)) ELSE h

\* whatsapp.js 86-87: the two entries of a turn, the user's and the assistant's
TurnEntries(text, response) ==
    <<[role |-> "user", content |-> text], [role |-> "assistant", content |-> response]>>

\* whatsapp.js 85-93: the two entries of a turn are pushed, then the trim
AppendTurn(h, text, response) == Trim(h \o TurnEntries(text, response))

RECURSIVE Turns(_)
\* the history array after the turns of events 1..n, one after the other
Turns(n) == IF n = 0 THEN <<>> ELSE AppendTurn(Turns(n - 1), n, n)

-----------------------------------------------------------------------------
(* Strings, as sequences of characters, and splitMessage (whatsapp.js 173-199) *)

\* two letters, the space and the newline
Chars == {"a", "b", " ", "\n"}

\* the characters String.prototype.trim removes
Whitespace == {" ", "\n"}

\* the texts of at most MaxTextLen characters
Texts == UNION {[1..n -> Chars] : n \in 0..MaxTextLen}

\* a lastIndexOf that ignores fromIndex and searches the whole string
lastIndexOfAnywhere(s, ch, fromIndex) ==
    LET found == {i \in 0..(Len(s) - 1) : s[i + 1] = ch}
    IN IF found = {} THEN -1 ELSE CHOOSE i \in found : \A j \in found : j <= i

\* s.lastIndexOf(ch, fromIndex): the largest index (from 0) not above
\* fromIndex where s has ch, -1 when there is none
lastIndexOf(s, ch, fromIndex) ==
    LET found == {i \in 0..(Len(s) - 1) : i <= fromIndex /\ s[i + 1] = ch}
    IN IF found = {} THEN -1 ELSE CHOOSE i \in found : \A j \in found : j <= i

\* s.substring(start, end): the characters at indexes start .. end - 1
substring(s, start, end) == SubSeq(s, start + 1, end)

\* a substring(start) that starts one character late
substringFromNext(s, start) == SubSeq(s, start + 2, Len(s))

\* s.substring(start): the characters from index start to the end
substringFrom(s, start) == SubSeq(s, start + 1, Len(s))

RECURSIVE trimStart(_)
\* s without its leading whitespace
trimStart(s) == IF s # <<>> /\ Head(s) \in Whitespace THEN trimStart(Tail(s)) ELSE s

RECURSIVE trimEnd(_)
\* s without its trailing whitespace
trimEnd(s) == IF s # <<>> /\ s[Len(s)] \in Whitespace THEN trimEnd(SubSeq(s, 1, Len(s) - 1)) ELSE s

\* a trim that leaves the leading whitespace
trimTrailingOnly(s) == trimEnd(s)

\* s.trim(): s without its leading and trailing whitespace
trim(s) == trimStart(trimEnd(s))

\* whatsapp.js 185-192: the index where the text is cut: the last newline
\* within maxLength unless there is none or it lies before maxLength / 2, then
\* the last space within maxLength, and maxLength when there is none
BreakPoint(remaining, maxLength) ==
    LET newline == lastIndexOf(remaining, "\n", maxLength)
        breakPoint == IF newline = -1 \/ 2 * newline < maxLength
                      THEN lastIndexOf(remaining, " ", maxLength)
                      ELSE newline
    IN IF breakPoint = -1 THEN maxLength ELSE breakPoint

\* whatsapp.js 179-196: one iteration of the loop on the remaining text and
\* the chunks so far; `more` says whether the loop goes on
SplitIteration(remaining, chunks, maxLength) ==
    IF Len(remaining) <= maxLength
    THEN [remaining |-> remaining, chunks |-> Append(chunks, remaining), more |-> FALSE]
    ELSE LET breakPoint == BreakPoint(remaining, maxLength)
             rest == trim(substringFrom(remaining, breakPoint))
         IN [remaining |-> rest,
             chunks |-> Append(chunks, substring(remaining, 0, breakPoint)),
             more |-> Len(rest) > 0]

-----------------------------------------------------------------------------

RECURSIVE FullTurns(_)
\* every entry the turns of events 1..n pushed, none dropped
FullTurns(n) == IF n = 0 THEN <<>> ELSE FullTurns(n - 1) \o TurnEntries(n, n)

-----------------------------------------------------------------------------
(* Inputs *)

DelayKeys == {"delayMinutes", "delayHours", "delayDays"}

DelayValues == {-1, 0, 1, 2}

\* the optional offsets of a call: a function on the keys that are supplied
AllDelays == UNION {[S -> DelayValues] : S \in SUBSET DelayKeys}

NoDelays == <<>>

\* specificTime: "" stands for absent (an empty string is falsy as well)
SpecificTimes == {"", "not a date", "1970-01-01T00:00:00.000Z", "1970-01-01T00:01:00.000Z"}

\* every call of set_reminder the tool's specification makes
AllArgs == [message : {"call mom"}, delays : AllDelays, specificTime : SpecificTimes]

\* the calls the reminder subsystem's specifications make: due at once, due in
\* a minute, and an unparseable time
FewArgs ==
    { [message |-> "call mom", delays |-> NoDelays, specificTime |-> ""],
      [message |-> "buy milk", delays |-> [k \in {"delayMinutes"} |-> 1], specificTime |-> ""],
      [message |-> "call mom", delays |-> NoDelays, specificTime |-> "not a date"] }

\* the call the trigger endpoints' specification makes: a reminder due at once
DueNowArgs == [message |-> "call mom", delays |-> NoDelays, specificTime |-> ""]

\* the reminder ids the clock of the model can produce
ClockValues == {m * MinuteMs + s : m \in 0..MaxTicks, s \in 0..MaxTicks}

\* the steps the clock has made when it shows t
TicksUsed(t) == (t \div MinuteMs) + (t % MinuteMs)

-----------------------------------------------------------------------------
(* The cron secret (index.js 54-60) *)

\* a header, query parameter or environment variable that is absent
Undefined == "undefined"

\* what a request carries as x-cron-secret header or secret query parameter,
\* and what CRON_SECRET is configured to: absent, empty, the secret, another
SecretValues == {Undefined, "", "s3cret", "wrong"}

\* JavaScript's a || b on these values: absent and empty are falsy
Or(a, b) == IF a \in {Undefined, ""} THEN b ELSE a

\* a check that looks at the header only and lets a request without one pass
validateCronSecretHeaderOnly(header, query, configured) == header \in {Undefined, configured}

\* index.js 55-56: TRUE when next() is called, FALSE when 401 is sent
validateCronSecret(header, query, configured) == Or(header, query) = configured

\* no request
NoRequest == [path |-> "", header |-> Undefined, query |-> Undefined, status |-> 0]

-----------------------------------------------------------------------------
(* The other tools: web_search, the calendar tools and the notes tools.      *)
(* A call of a tool function returns [result, threw, remote, failed]:       *)
(* result is the object given to JSON.stringify, keys the fields it has;    *)
(* threw says that the promise of func rejected; remote counts the requests *)
(* the call made; failed says that an error was raised inside its body.     *)

\* what a request to a remote service can do: answer, reject (network or HTTP
\* client error), or answer with something the code after the await cannot read
RemoteOutcomes == {"ok", "rejected", "unreadable"}

\* what a call of a calendar tool can do: getCalendarClient throws before any
\* request is made, or the request ends in one of RemoteOutcomes
CalendarOutcomes == RemoteOutcomes \cup {"noClient"}

\* the message of the Error raised by an outcome
ErrorMessage(outcome) ==
    CASE outcome = "rejected" -> "request failed"
      [] outcome = "unreadable" -> "Cannot read properties of undefined"
      [] outcome = "noClient" -> "invalid credentials"
      [] OTHER -> ""

\* JSON.stringify({ success: false, error })
FailurePayload(error) == [keys |-> {"success", "error"}, success |-> FALSE, error |-> error]

\* JSON.stringify of a payload of the given fields that carries no error
Payload(keys) == [keys |-> keys, success |-> "success" \in keys, error |-> ""]

\* `!apiKey` (webSearch.js 20) is false: the key is neither undefined nor empty
HasApiKey(apiKey) == apiKey \notin {Undefined, ""}

\* a search whose try has no catch: a rejected request rejects the call
webSearchFuncNoCatch(apiKey, outcome) ==
    IF ~HasApiKey(apiKey)
    THEN [result |-> FailurePayload("Web search is not configured. Add TAVILY_API_KEY to enable."),
          threw |-> FALSE, remote |-> 0, failed |-> TRUE]
    ELSE [result |-> Payload({"success", "answer", "results"}),
          threw |-> outcome # "ok", remote |-> 1, failed |-> outcome # "ok"]

\* webSearch.js 17-61, webSearchTool.func: without a key it returns at 22-25,
\* before the try; fetch (29) or response.json() (43) rejecting is caught (54-60)
webSearchFunc(apiKey, outcome) ==
    IF ~HasApiKey(apiKey)
    THEN [result |-> FailurePayload("Web search is not configured. Add TAVILY_API_KEY to enable."),
          threw |-> FALSE, remote |-> 0, failed |-> TRUE]
    ELSE IF outcome = "ok"
         THEN [result |-> Payload({"success", "answer", "results"}),
               threw |-> FALSE, remote |-> 1, failed |-> FALSE]
         ELSE [result |-> FailurePayload("Failed to search the web"),
               threw |-> FALSE, remote |-> 1, failed |-> TRUE]

\* the try / catch every calendar tool has (calendar.js 42-98, 108-135,
\* 147-178): getCalendarClient, one awaited request, the payload of okKeys;
\* the catch returns { success: false, error: error.message }
calendarFunc(outcome, okKeys) ==
    IF outcome = "ok"
    THEN [result |-> Payload(okKeys), threw |-> FALSE, remote |-> 1, failed |-> FALSE]
    ELSE [result |-> FailurePayload(ErrorMessage(outcome)), threw |-> FALSE,
          remote |-> IF outcome = "noClient" THEN 0 ELSE 1, failed |-> TRUE]

\* calendar.js 41-99, createEventTool.func
createEventFunc(outcome) ==
    calendarFunc(outcome, {"success", "eventId", "title", "date", "time", "recurring", "timezone"})

\* calendar.js 107-136, getTodaysEventsTool.func
getTodaysEventsFunc(outcome) == calendarFunc(outcome, {"date", "eventCount", "events"})

\* calendar.js 146-179, getUpcomingEventsTool.func
getUpcomingEventsFunc(outcome) == calendarFunc(outcome, {"period", "eventCount", "events"})

\* the tags a note is saved with, and the tag get_notes filters by (none,
\* lower case, capitalised)
TagSets == {{}, {"shopping"}}
TagFilters == {Undefined, "shopping", "Shopping"}

\* String.prototype.toLowerCase on the tags of the model
toLowerCase(tag) == IF tag = "Shopping" THEN "shopping" ELSE tag

\* notes.js 19-43, saveNoteTool.func: t1 is Date.now() (21), t2 new Date() (27);
\* nothing in its try raises an error for a string content
saveNoteFunc(store, content, tags, t1, t2) ==
    [store |-> MapSet(store, t1, [id |-> t1, content |-> content, tags |-> tags, createdAt |-> Date(t2)]),
     result |-> Payload({"success", "noteId", "content", "tags"}),
     threw |-> FALSE, remote |-> 0, failed |-> FALSE]

\* Array.prototype.sort by (a, b) => b.createdAt - a.createdAt: stable, latest first
RECURSIVE SortLatestFirst(_)
SortLatestFirst(s) ==
    IF Len(s) <= 1 THEN s
    ELSE LET rest == SortLatestFirst(Tail(s))
             before == SelectSeq(rest, LAMBDA n : n.createdAt.ms > Head(s).createdAt.ms)
             after == SelectSeq(rest, LAMBDA n : n.createdAt.ms <= Head(s).createdAt.ms)
         IN before \o <<Head(s)>> \o after

\* notes.js 55-65: the notes get_notes returns
SelectedNotes(store, tag, limit) ==
    LET filtered == IF tag \notin {Undefined, ""}
                    THEN SelectSeq(store, LAMBDA n : toLowerCase(tag) \in n.tags)
                    ELSE store
        sorted == SortLatestFirst(filtered)
    IN SubSeq(sorted, 1, IF Len(sorted) < limit THEN Len(sorted) ELSE limit)

\* notes.js 53-78, getNotesTool.func
getNotesFunc(store, tag, limit) ==
    [result |-> Payload({"noteCount", "notes"}), notes |-> SelectedNotes(store, tag, limit),
     threw |-> FALSE, remote |-> 0, failed |-> FALSE]

-----------------------------------------------------------------------------
(* The record of the last operation *)

\* no run of processPendingReminders has just returned
NoRun == [returned |-> FALSE, count |-> 0, delivered |-> 0, at |-> 0, calls0 |-> 0]

\* run: the run of processPendingReminders the step belongs to (whether it
\* has returned, what it returned, how many reminders it delivered and
\* marked, the clock and the number of set_reminder calls at its scan);
\* prev: the run that returned in the step before a run's scan, if one did
NoOp ==
    [op |-> "none", success |-> FALSE, id |-> NoId, pending |-> <<>>, base |-> 0,
     args |-> [message |-> "", delays |-> NoDelays, specificTime |-> ""],
     error |-> "", threw |-> FALSE, wasSent |-> FALSE, returned |-> FALSE, count |-> 0,
     request |-> NoRequest, run |-> NoRun, prev |-> NoRun,
     keys |-> {}, failed |-> FALSE, remote |-> 0, notes |-> <<>>]

-----------------------------------------------------------------------------
(* Initial state: both Maps empty (reminder.js 10, whatsapp.js 21) *)

InitReminders ==
    /\ now \in {0}
    /\ reminders = <<>>
    /\ nextObj = 1
    /\ calls = 0
    /\ runs = <<>>
    /\ sentCount = <<>>
    /\ last = NoOp

InitChatIdle ==
    /\ conversationHistory = [k \in Keys |-> NoRef]
    /\ arrays = <<>>
    /\ handlers = <<>>
    /\ nextEvent = 1
    /\ turnLog = [k \in Keys |-> <<>>]

\* no call of sendWhatsAppMessage is modelled
NoSend ==
    [pc |-> "idle", message |-> <<>>, maxLength |-> 1, remaining |-> <<>>, chunks |-> <<>>,
     transport |-> <<>>]

InitSendIdle == out = NoSend

\* no cron request was made; the secret is configured
InitCronIdle ==
    /\ summaries = <<>>
    /\ env = [CRON_SECRET |-> "s3cret", TAVILY_API_KEY |-> Undefined]

\* no note was saved (notes.js 10) and no remote service was called
InitToolsIdle ==
    /\ notes = <<>>
    /\ remoteCalls = 0

Init == InitReminders /\ InitChatIdle /\ InitSendIdle /\ InitCronIdle /\ InitToolsIdle

\* the server with CRON_SECRET configured, or left unset
InitCron ==
    /\ InitReminders /\ InitChatIdle /\ InitSendIdle /\ InitToolsIdle
    /\ summaries = <<>>
    /\ env \in [CRON_SECRET : {Undefined, "s3cret"}, TAVILY_API_KEY : {Undefined}]

\* sendWhatsAppMessage was called with a text (whatsapp.js 26); the length
\* limit of line 29 is any maxLength of 1 .. MaxChunkLen
InitSend ==
    /\ InitReminders /\ InitChatIdle /\ InitCronIdle /\ InitToolsIdle
    /\ \E message \in Texts, maxLength \in 1..MaxChunkLen :
           out = [NoSend EXCEPT !.pc = "called", !.message = message, !.maxLength = maxLength]

\* the first sender's history already holds the turns of n earlier events,
\* which were handled one after the other: none, or so many that the
\* history is one turn short of MAX_HISTORY or full
InitChat ==
    /\ InitReminders /\ InitSendIdle /\ InitCronIdle /\ InitToolsIdle
    /\ \E n \in {0, MaxPriorTurns - 1, MaxPriorTurns} :
         /\ arrays = IF n = 0 THEN <<>> ELSE <<Turns(n)>>
         /\ conversationHistory = [k \in Keys |-> IF n > 0 /\ k = "whatsapp:+1" THEN 1 ELSE NoRef]
         /\ nextEvent = n + 1
         /\ turnLog = [k \in Keys |-> IF k = "whatsapp:+1" THEN FullTurns(n) ELSE <<>>]
    /\ handlers = <<>>

-----------------------------------------------------------------------------
(* The clock *)

Tick ==
    /\ TicksUsed(now) < MaxTicks
    /\ now' = now + 1
    /\ last' = [NoOp EXCEPT !.op = "tick"]
    /\ UNCHANGED <<remVars, chatVars, sendVars, cronVars, toolVars>>

TickMinute ==
    /\ TicksUsed(now) < MaxTicks
    /\ now' = now + MinuteMs
    /\ last' = [NoOp EXCEPT !.op = "tick"]
    /\ UNCHANGED <<remVars, chatVars, sendVars, cronVars, toolVars>>

-----------------------------------------------------------------------------
(* set_reminder *)

\* one call of reminderTool.func; the clock may tick between its three reads.
\* maxOps bounds the calls and the runs made so far, together.
SetReminder(args, maxOps) ==
    /\ calls + Len(runs) < maxOps
    /\ \E d1 \in 0..1, d2 \in 0..1 :
         LET t1 == now
             t2 == t1 + d1
             t3 == t2 + d2
             r == ReminderFunc(reminders, args, t1, t2, t3, nextObj)
         IN /\ TicksUsed(t3) <= MaxTicks
            /\ now' = t3
            /\ reminders' = r.store
            /\ last' = [NoOp EXCEPT !.op = "set_reminder", !.success = r.result.success,
                                    !.id = r.result.reminderId, !.error = r.result.error,
                                    !.threw = r.threw, !.base = t1, !.args = args]
    /\ nextObj' = nextObj + 1
    /\ calls' = calls + 1
    /\ sentCount' = Append(sentCount, 0)
    /\ UNCHANGED <<runs, chatVars, sendVars, cronVars, toolVars>>

-----------------------------------------------------------------------------
(* Direct calls of the store's exported functions *)

GetPendingCall ==
    /\ last' = [NoOp EXCEPT !.op = "getPendingReminders",
                            !.pending = getPendingReminders(reminders, now)]
    /\ UNCHANGED <<now, remVars, chatVars, sendVars, cronVars, toolVars>>

MarkSentCall(id) ==
    LET r == markReminderSent(reminders, id)
    IN /\ reminders' = r.store
       /\ last' = [NoOp EXCEPT !.op = "markReminderSent", !.id = id, !.threw = r.threw,
                               !.wasSent = MapHas(reminders, id) /\ reminders[MapIndex(reminders, id)].sent]
       /\ UNCHANGED <<now, nextObj, calls, runs, sentCount, chatVars, sendVars, cronVars, toolVars>>

-----------------------------------------------------------------------------
(* processPendingReminders (whatsapp.js 151-168) *)

\* whatsapp.js 167: what processPendingReminders returns
ReturnedCount(run) == Len(run.pending)

\* the run after the delivery of pending[i] has settled: the next delivery
\* starts, or the function returns.  A run that has returned keeps what it
\* returned and how many reminders it delivered and marked.
RunAdvance(run) ==
    IF run.i < Len(run.pending)
    THEN [run EXCEPT !.i = run.i + 1]
    ELSE [pc |-> "done", pending |-> <<>>, i |-> 0, count |-> ReturnedCount(run),
          delivered |-> run.delivered, at |-> 0, calls0 |-> 0]

\* what the record of the last operation says of the run, before and after the step
RunInfo(before, after) ==
    [returned |-> after.pc = "done", count |-> after.count, delivered |-> after.delivered,
     at |-> before.at, calls0 |-> before.calls0]

\* line 152 and the first delivery call, up to its await, for request req
ProcessPendingRemindersCall(req) ==
    /\ calls + Len(runs) < MaxOps
    /\ LET pending == getPendingReminders(reminders, now)
           called == [pc |-> "sending", pending |-> pending, i |-> 0, count |-> 0,
                      delivered |-> 0, at |-> now, calls0 |-> calls]
           run == RunAdvance(called)
       IN /\ runs' = Append(runs, run)
          /\ last' = [NoOp EXCEPT !.op = "processPendingReminders", !.pending = pending,
                                  !.returned = (run.pc = "done"), !.count = run.count,
                                  !.request = req, !.run = RunInfo(called, run), !.prev = last.run]
    /\ UNCHANGED <<now, reminders, nextObj, calls, sentCount, chatVars, sendVars, cronVars, toolVars>>

\* a run of processPendingReminders
RunStart == ProcessPendingRemindersCall(NoRequest)

\* the trigger invoked again and again: a run starts once the run before it
\* has returned, and takes the place of that run's record
RunStartAgain ==
    /\ \A r \in 1..Len(runs) : runs[r].pc = "done"
    /\ LET pending == getPendingReminders(reminders, now)
           called == [pc |-> "sending", pending |-> pending, i |-> 0, count |-> 0,
                      delivered |-> 0, at |-> now, calls0 |-> calls]
           run == RunAdvance(called)
       IN /\ runs' = <<run>>
          /\ last' = [NoOp EXCEPT !.op = "processPendingReminders", !.pending = pending,
                                  !.returned = (run.pc = "done"), !.count = run.count,
                                  !.run = RunInfo(called, run), !.prev = last.run]
    /\ UNCHANGED <<now, reminders, nextObj, calls, sentCount, chatVars, sendVars, cronVars, toolVars>>

\* the transport accepted the message of pending[i]: lines 160-161, next iteration
RunSendOk(r) ==
    /\ runs[r].pc = "sending"
    /\ LET rem == runs[r].pending[runs[r].i]
           run == RunAdvance([runs[r] EXCEPT !.delivered = @ + 1])
       IN /\ sentCount' = [sentCount EXCEPT ![rem.obj] = @ + 1]
          /\ reminders' = markReminderSent(reminders, rem.id).store
          /\ runs' = [runs EXCEPT ![r] = run]
          /\ last' = [NoOp EXCEPT !.op = "delivery", !.success = TRUE, !.id = rem.id,
                                  !.returned = (run.pc = "done"), !.count = run.count,
                                  !.run = RunInfo(runs[r], run)]
    /\ UNCHANGED <<now, nextObj, calls, chatVars, sendVars, cronVars, toolVars>>

\* the transport call of pending[i] failed: the catch of lines 162-164
RunSendFail(r) ==
    /\ runs[r].pc = "sending"
    /\ LET rem == runs[r].pending[runs[r].i]
           run == RunAdvance(runs[r])
       IN /\ runs' = [runs EXCEPT ![r] = run]
          /\ last' = [NoOp EXCEPT !.op = "delivery", !.success = FALSE, !.id = rem.id,
                                  !.returned = (run.pc = "done"), !.count = run.count,
                                  !.run = RunInfo(runs[r], run)]
    /\ UNCHANGED <<now, reminders, nextObj, calls, sentCount, chatVars, sendVars, cronVars, toolVars>>

-----------------------------------------------------------------------------
(* The trigger endpoints (index.js 54-86) and sendDailyReminders (whatsapp.js 111-146) *)

\* index.js 57: the 401 response; nothing else happens
Unauthorized(req) ==
    /\ last' = [NoOp EXCEPT !.op = "cron", !.request = [req EXCEPT !.status = 401]]
    /\ UNCHANGED <<now, remVars, chatVars, sendVars, cronVars, toolVars>>

\* GET /cron/reminders (77-86): the secret is checked, then
\* processPendingReminders is called
CronReminders(header, query) ==
    LET req == [NoRequest EXCEPT !.path = "/cron/reminders", !.header = header, !.query = query]
    IN IF validateCronSecret(header, query, env.CRON_SECRET)
       THEN ProcessPendingRemindersCall(req)
       ELSE Unauthorized(req)

\* GET or POST /cron/daily-summary (63-74): the secret is checked, then
\* sendDailyReminders is called and awaits the calendar (whatsapp.js 114)
CronDailySummary(header, query) ==
    LET req == [NoRequest EXCEPT !.path = "/cron/daily-summary", !.header = header, !.query = query]
    IN IF validateCronSecret(header, query, env.CRON_SECRET)
       THEN /\ Len(summaries) < MaxSummaries
            /\ summaries' = Append(summaries, [pc |-> "fetching", status |-> 0])
            /\ last' = [NoOp EXCEPT !.op = "sendDailyReminders", !.request = req]
            /\ UNCHANGED <<now, remVars, chatVars, sendVars, env, toolVars>>
       ELSE Unauthorized(req)

\* whatsapp.js 114-138: the calendar answered with today's events; the
\* message is built and given to sendWhatsAppMessage
SummaryFetchOk(i) ==
    /\ summaries[i].pc = "fetching"
    /\ summaries' = [summaries EXCEPT ![i].pc = "sending"]
    /\ last' = [NoOp EXCEPT !.op = "summary"]
    /\ UNCHANGED <<now, remVars, chatVars, sendVars, env, toolVars>>

\* calendar.js 133-136 and 183-190: the calendar failed, the tool returns
\* {success: false, error}; result.events.length (whatsapp.js 118) throws, the
\* catch rethrows (142-145) and handleDailySummary answers 500 (index.js 68-71)
SummaryFetchFail(i) ==
    /\ summaries[i].pc = "fetching"
    /\ summaries' = [summaries EXCEPT ![i] = [pc |-> "done", status |-> 500]]
    /\ last' = [NoOp EXCEPT !.op = "summary", !.threw = TRUE]
    /\ UNCHANGED <<now, remVars, chatVars, sendVars, env, toolVars>>

\* whatsapp.js 138-139, index.js 67: the summary was delivered, the answer is 200
SummarySendOk(i) ==
    /\ summaries[i].pc = "sending"
    /\ summaries' = [summaries EXCEPT ![i] = [pc |-> "done", status |-> 200]]
    /\ last' = [NoOp EXCEPT !.op = "summary", !.success = TRUE]
    /\ UNCHANGED <<now, remVars, chatVars, sendVars, env, toolVars>>

\* whatsapp.js 138 and 142-145, index.js 68-71: sendWhatsAppMessage threw, the
\* answer is 500
SummarySendFail(i) ==
    /\ summaries[i].pc = "sending"
    /\ summaries' = [summaries EXCEPT ![i] = [pc |-> "done", status |-> 500]]
    /\ last' = [NoOp EXCEPT !.op = "summary", !.threw = TRUE]
    /\ UNCHANGED <<now, remVars, chatVars, sendVars, env, toolVars>>

-----------------------------------------------------------------------------
(* handleIncomingMessage (whatsapp.js 49-106) *)

\* the pcs at which a handler awaits the transport call of sendWhatsAppMessage
SendingPcs == {"delivering", "replying", "apologizingAudio", "apologizing"}

\* index.js 37 and 40: the body every webhook response carries
AckBody == "<Response></Response>"

\* a webhook that answers in the try and once more in the catch
WebhookResponseTwice == <<AckBody, AckBody>>

\* index.js 24-42: what the webhook writes to its response: the try sends the
\* acknowledgment (37) after starting the handler, the catch (38-41) sends
\* the same when the try threw before that
WebhookResponse == <<AckBody>>

\* the handler of event ev from sender `from`, before it has resolved its
\* text.  attempts records the messages the handler gave to
\* sendWhatsAppMessage, sends those of them that were delivered, agentCalls
\* its calls of runAgent, transcriptionFailed whether transcribeAudio
\* rejected, acks the webhook's response.
NewHandler(ev, from) ==
    [ev |-> ev, from |-> from, pc |-> "start", history |-> NoRef, sends |-> <<>>, agentCalls |-> 0,
     attempts |-> <<>>, transcriptionFailed |-> FALSE, acks |-> <<>>]

\* lines 71-82 for handler h with the resolved text: a blank text is answered
\* at once (72), otherwise the history array is read, or created when the
\* sender has none (79), and runAgent is called (82).  Gives the handler at
\* its await and the heap.
ResolveText(h, blank, map, heap) ==
    IF blank
    THEN [handler |-> [h EXCEPT !.pc = "replying", !.attempts = Append(@, "replying")], heap |-> heap]
    ELSE IF map[h.from] # NoRef
         THEN [handler |-> [h EXCEPT !.pc = "reasoning", !.history = map[h.from], !.agentCalls = @ + 1],
               heap |-> heap]
         ELSE [handler |-> [h EXCEPT !.pc = "reasoning", !.history = Len(heap) + 1, !.agentCalls = @ + 1],
               heap |-> Append(heap, <<>>)]

\* index.js 24-42 and the synchronous start of handleIncomingMessage: an audio
\* event awaits its transcription (54-59), a text event goes on with its Body (68)
Dispatch(from, audio, blank) ==
    /\ Len(handlers) < MaxEvents
    /\ LET h == NewHandler(nextEvent, from)
           r == IF audio
                THEN [handler |-> [h EXCEPT !.pc = "transcribing"], heap |-> arrays]
                ELSE ResolveText(h, blank, conversationHistory, arrays)
       IN /\ handlers' = Append(handlers, [r.handler EXCEPT !.acks = WebhookResponse])
          /\ arrays' = r.heap
    /\ nextEvent' = nextEvent + 1
    /\ last' = [NoOp EXCEPT !.op = "event"]
    /\ UNCHANGED <<now, remVars, sendVars, cronVars, conversationHistory, turnLog, toolVars>>

\* an inbound event that arrives when the handlers of all earlier events have ended
DispatchSeq(from, audio, blank) ==
    /\ \A i \in 1..Len(handlers) : handlers[i].pc \in {"done", "rejected"}
    /\ Dispatch(from, audio, blank)

\* transcribeAudio resolved with a text (59-60)
TranscribeOk(i, blank) ==
    /\ handlers[i].pc = "transcribing"
    /\ LET r == ResolveText(handlers[i], blank, conversationHistory, arrays)
       IN /\ handlers' = [handlers EXCEPT ![i] = r.handler]
          /\ arrays' = r.heap
    /\ last' = [NoOp EXCEPT !.op = "event"]
    /\ UNCHANGED <<now, remVars, sendVars, cronVars, conversationHistory, nextEvent, turnLog, toolVars>>

\* a failed transcription after which the handler goes on to the reasoning
TranscribeFailThenReason(i) ==
    /\ handlers[i].pc = "transcribing"
    /\ LET r == ResolveText([handlers[i] EXCEPT !.transcriptionFailed = TRUE],
                            FALSE, conversationHistory, arrays)
       IN /\ handlers' = [handlers EXCEPT ![i] = r.handler]
          /\ arrays' = r.heap
    /\ last' = [NoOp EXCEPT !.op = "event"]
    /\ UNCHANGED <<now, remVars, sendVars, cronVars, conversationHistory, nextEvent, turnLog, toolVars>>

\* transcribeAudio rejected (61-64): the apology of line 63 is sent
TranscribeFail(i) ==
    /\ handlers[i].pc = "transcribing"
    /\ handlers' = [handlers EXCEPT ![i].pc = "apologizingAudio",
                                    ![i].attempts = Append(@, "apologizingAudio"),
                                    ![i].transcriptionFailed = TRUE]
    /\ last' = [NoOp EXCEPT !.op = "event"]
    /\ UNCHANGED <<now, remVars, sendVars, cronVars, conversationHistory, arrays, nextEvent, turnLog, toolVars>>

\* runAgent resolved: lines 85-97, up to the await of the delivery
AgentOk(i) ==
    /\ handlers[i].pc = "reasoning"
    /\ LET h == handlers[i]
       IN /\ arrays' = [arrays EXCEPT ![h.history] = AppendTurn(@, h.ev, h.ev)]
          /\ conversationHistory' = [conversationHistory EXCEPT ![h.from] = h.history]
          /\ turnLog' = [turnLog EXCEPT ![h.from] = @ \o TurnEntries(h.ev, h.ev)]
          /\ handlers' = [handlers EXCEPT ![i].pc = "delivering", ![i].attempts = Append(@, "delivering")]
    /\ last' = [NoOp EXCEPT !.op = "event"]
    /\ UNCHANGED <<now, remVars, sendVars, cronVars, nextEvent, toolVars>>

\* a failed reasoning call whose turn is stored all the same
AgentFailPersists(i) ==
    /\ handlers[i].pc = "reasoning"
    /\ LET h == handlers[i]
       IN /\ arrays' = [arrays EXCEPT ![h.history] = AppendTurn(@, h.ev, h.ev)]
          /\ conversationHistory' = [conversationHistory EXCEPT ![h.from] = h.history]
          /\ turnLog' = [turnLog EXCEPT ![h.from] = @ \o TurnEntries(h.ev, h.ev)]
          /\ handlers' = [handlers EXCEPT ![i].pc = "apologizing", ![i].history = NoRef,
                                          ![i].attempts = Append(@, "apologizing")]
    /\ last' = [NoOp EXCEPT !.op = "event"]
    /\ UNCHANGED <<now, remVars, sendVars, cronVars, nextEvent, toolVars>>

\* runAgent rejected: the catch of lines 99-104 sends the generic apology
AgentFail(i) ==
    /\ handlers[i].pc = "reasoning"
    /\ handlers' = [handlers EXCEPT ![i].pc = "apologizing", ![i].history = NoRef,
                                    ![i].attempts = Append(@, "apologizing")]
    /\ last' = [NoOp EXCEPT !.op = "event"]
    /\ UNCHANGED <<now, remVars, sendVars, cronVars, conversationHistory, arrays, nextEvent, turnLog, toolVars>>

\* the transport accepted the message the handler was sending: the handler ends
SendOk(i) ==
    /\ handlers[i].pc \in SendingPcs
    /\ handlers' = [handlers EXCEPT ![i].pc = "done", ![i].history = NoRef,
                                    ![i].sends = Append(@, handlers[i].pc)]
    /\ last' = [NoOp EXCEPT !.op = "event"]
    /\ UNCHANGED <<now, remVars, sendVars, cronVars, conversationHistory, arrays, nextEvent, turnLog, toolVars>>

\* a failed transport call after which the handler gives up without an apology
SendFailNoApology(i) ==
    /\ handlers[i].pc \in SendingPcs
    /\ handlers' = [handlers EXCEPT ![i].pc = "rejected", ![i].history = NoRef]
    /\ last' = [NoOp EXCEPT !.op = "event"]
    /\ UNCHANGED <<now, remVars, sendVars, cronVars, conversationHistory, arrays, nextEvent, turnLog, toolVars>>

\* the transport call failed: inside the try the catch sends the generic
\* apology (99-104); a failure of that apology rejects the handler's promise,
\* which index.js 32-34 logs
SendFail(i) ==
    /\ handlers[i].pc \in SendingPcs
    /\ handlers' = [handlers EXCEPT ![i].pc = IF handlers[i].pc = "apologizing" THEN "rejected" ELSE "apologizing",
                                    ![i].history = NoRef,
                                    ![i].attempts = IF handlers[i].pc = "apologizing"
                                                    THEN @ ELSE Append(@, "apologizing")]
    /\ last' = [NoOp EXCEPT !.op = "event"]
    /\ UNCHANGED <<now, remVars, sendVars, cronVars, conversationHistory, arrays, nextEvent, turnLog, toolVars>>

-----------------------------------------------------------------------------
(* sendWhatsAppMessage (whatsapp.js 26-44) and the loop of splitMessage *)

\* whatsapp.js 31: the for loop over the chunks awaits the transport call of
\* the next chunk, or is over when every chunk was sent
AfterCalls(chunks, transport) == IF Len(transport) < Len(chunks) THEN "sending" ELSE "returned"

\* whatsapp.js 29 and 174-178: splitMessage is entered; a text within
\* maxLength is returned as the only chunk, a longer one enters the loop
SplitEnter ==
    /\ out.pc = "called"
    /\ out' = IF Len(out.message) <= out.maxLength
              THEN [out EXCEPT !.chunks = <<out.message>>, !.pc = AfterCalls(<<out.message>>, <<>>)]
              ELSE [out EXCEPT !.remaining = out.message, !.pc = "loop"]
    /\ last' = [NoOp EXCEPT !.op = "splitEnter"]
    /\ UNCHANGED <<now, remVars, chatVars, cronVars, toolVars>>

\* whatsapp.js 179-198: one iteration of the loop; after the last one
\* splitMessage returns and the first chunk's transport call is made
SplitLoop ==
    /\ out.pc = "loop"
    /\ LET r == SplitIteration(out.remaining, out.chunks, out.maxLength)
       IN out' = [out EXCEPT !.remaining = r.remaining, !.chunks = r.chunks,
                             !.pc = IF r.more THEN "loop" ELSE AfterCalls(r.chunks, <<>>)]
    /\ last' = [NoOp EXCEPT !.op = "splitLoop"]
    /\ UNCHANGED <<now, remVars, chatVars, cronVars, toolVars>>

\* the next chunk of a transport call that ended with outcome ok
TransportCall(o, ok) == [body |-> o.chunks[Len(o.transport) + 1], ok |-> ok]

\* a failed transport call that the loop takes for a sent chunk
ChunkSendFailSwallowed ==
    /\ out.pc = "sending"
    /\ LET t == Append(out.transport, TransportCall(out, FALSE))
       IN out' = [out EXCEPT !.transport = t, !.pc = AfterCalls(out.chunks, t)]
    /\ last' = [NoOp EXCEPT !.op = "chunkSendFail"]
    /\ UNCHANGED <<now, remVars, chatVars, cronVars, toolVars>>

\* whatsapp.js 32-36: messages.create resolved for the chunk: the loop goes
\* on with the next chunk, or sendWhatsAppMessage returns (39)
ChunkSendOk ==
    /\ out.pc = "sending"
    /\ LET t == Append(out.transport, TransportCall(out, TRUE))
       IN out' = [out EXCEPT !.transport = t, !.pc = AfterCalls(out.chunks, t)]
    /\ last' = [NoOp EXCEPT !.op = "chunkSendOk"]
    /\ UNCHANGED <<now, remVars, chatVars, cronVars, toolVars>>

\* whatsapp.js 32-36 and 40-43: messages.create rejected for the chunk: the
\* catch logs and rethrows, so the loop is left
ChunkSendFail ==
    /\ out.pc = "sending"
    /\ out' = [out EXCEPT !.transport = Append(@, TransportCall(out, FALSE)), !.pc = "threw"]
    /\ last' = [NoOp EXCEPT !.op = "chunkSendFail", !.threw = TRUE]
    /\ UNCHANGED <<now, remVars, chatVars, cronVars, toolVars>>

-----------------------------------------------------------------------------
(* The reasoning loop calls a tool function and awaits what it returns *)

\* the calls made so far that changed a store or reached a remote service
ToolCalls == calls + remoteCalls + Len(notes)

\* what the caller of a tool function gets
ToolLast(op, r) ==
    [NoOp EXCEPT !.op = op, !.success = r.result.success, !.error = r.result.error,
                 !.keys = r.result.keys, !.threw = r.threw, !.failed = r.failed,
                 !.remote = r.remote]

\* a call of a tool function that reads and writes no store
StatelessTool(op, r) ==
    /\ ToolCalls + r.remote <= MaxOps
    /\ remoteCalls' = remoteCalls + r.remote
    /\ last' = ToolLast(op, r)
    /\ UNCHANGED <<now, remVars, chatVars, sendVars, cronVars, notes>>

\* webSearch.js 17-61
WebSearch == \E outcome \in RemoteOutcomes : StatelessTool("web_search", webSearchFunc(env.TAVILY_API_KEY, outcome))

\* calendar.js 41-99
CreateCalendarEvent == \E outcome \in CalendarOutcomes : StatelessTool("create_calendar_event", createEventFunc(outcome))

\* calendar.js 107-136
GetTodaysEvents == \E outcome \in CalendarOutcomes : StatelessTool("get_todays_events", getTodaysEventsFunc(outcome))

\* calendar.js 146-179
GetUpcomingEvents == \E outcome \in CalendarOutcomes : StatelessTool("get_upcoming_events", getUpcomingEventsFunc(outcome))

\* notes.js 19-43
SaveNote ==
    /\ ToolCalls < MaxOps
    /\ \E content \in {"milk"}, tags \in TagSets, d \in 0..1 :
         LET r == saveNoteFunc(notes, content, tags, now, now + d)
         IN /\ TicksUsed(now + d) <= MaxTicks
            /\ now' = now + d
            /\ notes' = r.store
            /\ last' = ToolLast("save_note", r)
    /\ UNCHANGED <<remVars, chatVars, sendVars, cronVars, remoteCalls>>

\* notes.js 53-78
GetNotes ==
    /\ \E tag \in TagFilters, limit \in {1, 5} :
         LET r == getNotesFunc(notes, tag, limit)
         IN last' = [ToolLast("get_notes", r) EXCEPT !.notes = r.notes]
    /\ UNCHANGED <<now, remVars, chatVars, sendVars, cronVars, toolVars>>

-----------------------------------------------------------------------------
(* Specifications *)

\* the reminder subsystem as the program runs it
Next ==
    \/ Tick
    \/ TickMinute
    \/ \E args \in FewArgs : SetReminder(args, MaxOps)
    \/ RunStart
    \/ \E r \in 1..Len(runs) : RunSendOk(r)
    \/ \E r \in 1..Len(runs) : RunSendFail(r)

Spec == Init /\ [][Next]_vars

\* the store's exported functions called in any order
NextStore ==
    \/ Tick
    \/ \E args \in FewArgs : SetReminder(args, MaxOps)
    \/ GetPendingCall
    \/ \E id \in StoredIds(reminders) \cup {NoId} : MarkSentCall(id)

SpecStore == Init /\ [][NextStore]_vars

\* one call of set_reminder with every combination of its arguments
NextTool ==
    \/ Tick
    \/ TickMinute
    \/ \E args \in AllArgs : SetReminder(args, 1)

SpecTool == Init /\ [][NextTool]_vars

\* the reminder subsystem with a trigger that never stops being invoked:
\* reminders due at once and calls with an unparseable time
NextLive ==
    \/ Tick
    \/ \E args \in {a \in FewArgs : a.delays = NoDelays} : SetReminder(args, MaxOps)
    \/ RunStartAgain
    \/ \E r \in 1..Len(runs) : RunSendOk(r)
    \/ \E r \in 1..Len(runs) : RunSendFail(r)

\* the transport accepts the message of the reminder object o
DeliveryAccepted(o) ==
    \E r \in 1..Len(runs) : RunSendOk(r) /\ runs[r].pending[runs[r].i].obj = o

\* the trigger keeps being invoked, every awaited delivery settles, and the
\* transport does not reject the message of a reminder for ever
Fairness ==
    /\ WF_vars(RunStartAgain)
    /\ WF_vars(\E r \in 1..Len(runs) : RunSendOk(r) \/ RunSendFail(r))
    /\ \A o \in 1..MaxOps : SF_vars(DeliveryAccepted(o))

SpecLive == Init /\ [][NextLive]_vars /\ Fairness

\* the tool functions the reasoning loop can call, with the search key
\* configured, empty or unset
InitToolbox ==
    /\ InitReminders /\ InitChatIdle /\ InitSendIdle /\ InitToolsIdle
    /\ summaries = <<>>
    /\ env \in [CRON_SECRET : {"s3cret"}, TAVILY_API_KEY : {Undefined, "", "tvly-key"}]

NextToolbox ==
    \/ \E args \in FewArgs : SetReminder(args, 1)
    \/ WebSearch
    \/ CreateCalendarEvent
    \/ GetTodaysEvents
    \/ GetUpcomingEvents
    \/ SaveNote
    \/ GetNotes

SpecToolbox == InitToolbox /\ [][NextToolbox]_vars

\* the inbound events and their handlers
NextChat ==
    \/ \E from \in Keys, audio \in BOOLEAN, blank \in BOOLEAN : Dispatch(from, audio, blank)
    \/ \E i \in 1..Len(handlers), blank \in BOOLEAN : TranscribeOk(i, blank)
    \/ \E i \in 1..Len(handlers) : TranscribeFail(i)
    \/ \E i \in 1..Len(handlers) : AgentOk(i)
    \/ \E i \in 1..Len(handlers) : AgentFail(i)
    \/ \E i \in 1..Len(handlers) : SendOk(i)
    \/ \E i \in 1..Len(handlers) : SendFail(i)

SpecChat == InitChat /\ [][NextChat]_vars

\* the inbound events handled one after the other
NextSeq ==
    \/ \E from \in Keys, audio \in BOOLEAN, blank \in BOOLEAN : DispatchSeq(from, audio, blank)
    \/ \E i \in 1..Len(handlers), blank \in BOOLEAN : TranscribeOk(i, blank)
    \/ \E i \in 1..Len(handlers) : TranscribeFail(i)
    \/ \E i \in 1..Len(handlers) : AgentOk(i)
    \/ \E i \in 1..Len(handlers) : AgentFail(i)
    \/ \E i \in 1..Len(handlers) : SendOk(i)
    \/ \E i \in 1..Len(handlers) : SendFail(i)

SpecSeq == InitChat /\ [][NextSeq]_vars

\* one call of sendWhatsAppMessage: the split of its text, then the
\* transport calls of the chunks
NextSend ==
    \/ SplitEnter
    \/ SplitLoop
    \/ ChunkSendOk
    \/ ChunkSendFail

SpecSend == InitSend /\ [][NextSend]_vars

\* the trigger endpoints, with reminders to process
NextCron ==
    \/ SetReminder(DueNowArgs, 1)
    \/ \E header \in SecretValues, query \in SecretValues : CronReminders(header, query)
    \/ \E header \in SecretValues, query \in SecretValues : CronDailySummary(header, query)
    \/ \E r \in 1..Len(runs) : RunSendOk(r)
    \/ \E r \in 1..Len(runs) : RunSendFail(r)
    \/ \E i \in 1..Len(summaries) : SummaryFetchOk(i)
    \/ \E i \in 1..Len(summaries) : SummaryFetchFail(i)
    \/ \E i \in 1..Len(summaries) : SummarySendOk(i)
    \/ \E i \in 1..Len(summaries) : SummarySendFail(i)

SpecCron == InitCron /\ [][NextCron]_vars

-----------------------------------------------------------------------------
(* Claims about the reminder store *)

\* the stored reminder under id
Stored(m, id) == m[MapIndex(m, id)]

\* the operations that scan the store
ScanOps == {"getPendingReminders", "processPendingReminders"}

\* a stored reminder is unsent and due at clock t
UnsentAndDue(r, t) == ~r.sent /\ r.triggerAt.valid /\ r.triggerAt.ms <= t

\* C1: a scan returns exactly the stored reminders with sent = false and
\* triggerAt <= now: none that is sent, none that is not yet due, and every
\* unsent due reminder, each once.
C1_PendingExact ==
    last.op \in ScanOps =>
        /\ \A k \in 1..Len(last.pending) :
             /\ UnsentAndDue(last.pending[k], now)
             /\ \E j \in 1..Len(reminders) : reminders[j] = last.pending[k]
        /\ \A j \in 1..Len(reminders) :
             UnsentAndDue(reminders[j], now) =>
                 \E k \in 1..Len(last.pending) : last.pending[k] = reminders[j]
        /\ \A k1, k2 \in 1..Len(last.pending) :
             last.pending[k1] = last.pending[k2] => k1 = k2

\* C1 witness: a scan returned a reminder and left out another stored one
C1_Witness ==
    /\ last.op \in ScanOps
    /\ Len(last.pending) >= 1
    /\ Len(last.pending) < Len(reminders)

\* C2: no reminder's message is delivered successfully more than once, also
\* when two runs of processPendingReminders overlap.
C2_AtMostOnce == \A o \in 1..Len(sentCount) : sentCount[o] <= 1

\* C3: once the reminder stored under an id has sent = true, the reminder
\* stored under that id never has sent = false again.
C3_SentMonotonic ==
    [][\A id \in ClockValues :
          (MapHas(reminders, id) /\ Stored(reminders, id).sent)
              => (MapHas(reminders', id) /\ Stored(reminders', id).sent)]_vars

\* C4: a successful set_reminder returns an id no stored reminder had, and the
\* store grows by exactly one reminder.
C4_FreshId ==
    [][(last'.op = "set_reminder" /\ last'.success)
          => (~MapHas(reminders, last'.id) /\ Len(reminders') = Len(reminders) + 1)]_vars

\* C5: the triggerAt, message and createdAt stored under an id never change.
C5_DueTimeImmutable ==
    [][\A id \in ClockValues :
          MapHas(reminders, id)
              => /\ MapHas(reminders', id)
                 /\ Stored(reminders', id).triggerAt = Stored(reminders, id).triggerAt
                 /\ Stored(reminders', id).message = Stored(reminders, id).message
                 /\ Stored(reminders', id).createdAt = Stored(reminders, id).createdAt]_vars

\* C6: markReminderSent never throws, a second call with the same id changes
\* nothing the first one left, and a call with an unknown id leaves the store
\* as it was.
C6_MarkIdempotentTotal ==
    [][last'.op = "markReminderSent"
          => /\ ~last'.threw
             /\ markReminderSent(reminders', last'.id).store = reminders'
             /\ ~markReminderSent(reminders', last'.id).threw
             /\ (~MapHas(reminders, last'.id) => reminders' = reminders)]_vars

\* C6 witness: markReminderSent was called on a reminder that was already sent
C6_Witness == last.op = "markReminderSent" /\ last.wasSent

-----------------------------------------------------------------------------
(* Claims about set_reminder *)

\* the offset a call supplies under key k, in ms (0 when it supplies none)
Offset(args, k, unit) == IF k \in DOMAIN args.delays THEN args.delays[k] * unit ELSE 0

SumOfOffsets(args) ==
    Offset(args, "delayMinutes", MinuteMs) + Offset(args, "delayHours", HourMs)
        + Offset(args, "delayDays", DayMs)

\* a call without specificTime that supplies at least one offset, all positive
PositiveOffsetsOnly(args) ==
    /\ args.specificTime = ""
    /\ DOMAIN args.delays # {}
    /\ \A k \in DOMAIN args.delays : args.delays[k] > 0

\* a call without specificTime and without any positive offset
NoTiming(args) ==
    /\ args.specificTime = ""
    /\ \A k \in DOMAIN args.delays : args.delays[k] <= 0

C8_NoTimingFails ==
    (last.op = "set_reminder" /\ NoTiming(last.args)) =>
        (~last.success /\ ~MapHas(reminders, last.id))

\* C9: a call whose specificTime does not parse returns the failure payload
\* (success = false, with an error) and throws nothing to its caller.
C9_UnparseableFails ==
    (last.op = "set_reminder" /\ last.args.specificTime # ""
         /\ ~ParseDate(last.args.specificTime).valid) =>
        (~last.success /\ last.error # "" /\ ~last.threw)

\* C9 witness: set_reminder was called with a specificTime that is no date
C9_Witness ==
    /\ last.op = "set_reminder"
    /\ last.args.specificTime = "not a date"
    /\ ~last.success

-----------------------------------------------------------------------------
(* Claims about the conversation history *)

\* the history stored for sender k
HistoryOf(k) == IF conversationHistory[k] = NoRef THEN <<>> ELSE arrays[conversationHistory[k]]

\* C10: in every reachable state the history stored for a sender has at most
\* 20 entries, also when the handlers of several events interleave.
C10_HistoryBounded == \A k \in Keys : Len(HistoryOf(k)) <= MAX_HISTORY

\* C10 witness: a sender's history is full and its oldest turn has been
\* dropped, while another event of that sender is still being reasoned about
C10_Witness ==
    \E k \in Keys :
        /\ Len(HistoryOf(k)) = MAX_HISTORY
        /\ HistoryOf(k)[1].content > 1
        /\ \E i \in 1..Len(handlers) : handlers[i].from = k /\ handlers[i].pc = "reasoning"


\* the last n entries of sequence q, all of q when it has fewer
LastEntries(q, n) == IF Len(q) > n THEN SubSeq(q, Len(q) - n + 1, Len(q)) ELSE q

\* h is made of whole turns: a user's entry, then the assistant's
WholeTurns(h) ==
    /\ Len(h) % 2 = 0
    /\ \A j \in 1..Len(h) : h[j].role = (IF j % 2 = 1 THEN "user" ELSE "assistant")

\* C11: when the events are handled one after the other, the history stored
\* for a sender is the last min(2n, 20) entries of everything its n completed
\* turns pushed, in their order, each turn a user's entry followed by the
\* assistant's; a sender with no completed turn has no entries.
C11_LastTwentyOfTurns ==
    \A k \in Keys :
        /\ HistoryOf(k) = LastEntries(turnLog[k], MAX_HISTORY)
        /\ WholeTurns(HistoryOf(k))

\* an eleventh turn was completed and its reply is being delivered
C11_Witness ==
    /\ Len(turnLog["whatsapp:+1"]) = MAX_HISTORY + 2
    /\ Len(HistoryOf("whatsapp:+1")) = MAX_HISTORY
    /\ \E i \in 1..Len(handlers) : handlers[i].pc = "delivering" /\ handlers[i].from = "whatsapp:+1"

-----------------------------------------------------------------------------
(* Claims about splitMessage and sendWhatsAppMessage *)

\* splitMessage has returned its chunks
SplitReturned == out.pc \in {"sending", "returned", "threw"}

\* the text has no space and no newline
NoWhitespace(s) == \A j \in 1..Len(s) : s[j] \notin Whitespace

RECURSIVE Concat(_)
\* the chunks joined in their order
Concat(chunks) == IF chunks = <<>> THEN <<>> ELSE Head(chunks) \o Concat(Tail(chunks))

\* the larger of two integers
Max(a, b) == IF a >= b THEN a ELSE b

\* n / m rounded up
CeilDiv(n, m) == (n + m - 1) \div m

\* C12: for every text and maxLength >= 1 each chunk of splitMessage, also
\* while the loop is still running, has at most maxLength characters, and a
\* text of at most maxLength characters is returned as the one chunk equal
\* to it.
C12_ChunksWithinLimit ==
    /\ \A j \in 1..Len(out.chunks) : Len(out.chunks[j]) <= out.maxLength
    /\ (SplitReturned /\ Len(out.message) <= out.maxLength) => out.chunks = <<out.message>>

\* a text with whitespace was cut into several chunks, one of them of full length
C12_Witness ==
    /\ SplitReturned
    /\ ~NoWhitespace(out.message)
    /\ Len(out.chunks) >= 2
    /\ \E j \in 1..Len(out.chunks) : Len(out.chunks[j]) = out.maxLength

IterationShortens ==
    (last'.op = "splitLoop") =>
        \/ Len(out'.remaining) < Len(out.remaining)
        \/ Len(out.remaining) <= out.maxLength /\ out'.pc # "loop"

\* the chunks so far and the characters still to split are never more than
\* the characters of the text and one: the loop makes at most as many
\* iterations as the text has characters
IterationsBounded == Len(out.chunks) + Len(out.remaining) <= Len(out.message) + 1

\* C14: splitMessage returns for every text and every maxLength >= 1, also
\* for a text without whitespace or with leading whitespace: each iteration
\* of its loop strictly shortens the remaining text until the last one pushes
\* it, so the iterations are bounded by the length of the text.
C14_SplitTerminates == [][IterationShortens]_vars /\ []IterationsBounded

\* a text longer than maxLength that begins with whitespace was split, and
\* so was one without whitespace: here the first, cut at index 0
C14_Witness ==
    /\ SplitReturned
    /\ Len(out.message) > out.maxLength
    /\ Head(out.message) \in Whitespace
    /\ out.chunks[1] = <<>>

\* the transport calls made so far are those of the first chunks, in order,
\* one call each, and only the last of them may have failed; the call fails
\* exactly when sendWhatsAppMessage throws
InOrderNoRetry ==
    /\ Len(out.transport) <= Len(out.chunks)
    /\ \A j \in 1..Len(out.transport) :
          /\ out.transport[j].body = out.chunks[j]
          /\ j < Len(out.transport) => out.transport[j].ok
    /\ out.pc = "threw" <=> (out.transport # <<>> /\ ~out.transport[Len(out.transport)].ok)
    /\ out.pc = "returned" => Len(out.transport) = Len(out.chunks)

\* a transport call that was made stays made, with its outcome
NoRollback == SubSeq(out'.transport, 1, Len(out.transport)) = out.transport

\* C15: the chunks are sent as separate transport calls in chunk order; when
\* the call of chunk k fails the earlier chunks stay delivered, no later
\* chunk is sent, chunk k is not sent again, and sendWhatsAppMessage throws.
C15_ChunksInOrderNoRetry == []InOrderNoRetry /\ [][NoRollback]_vars

\* the second of three or more chunks failed after the first was delivered
C15_Witness ==
    /\ out.pc = "threw"
    /\ Len(out.transport) = 2
    /\ out.transport[1].ok
    /\ Len(out.chunks) >= 3

-----------------------------------------------------------------------------
(* Claims about the dispatcher of inbound events *)

\* the handler has ended: its promise is resolved or rejected
Finished(h) == h.pc \in {"done", "rejected"}

\* the handler's transcription failed
TranscriptionFailed(h) == h.transcriptionFailed

\* the histories of all senders
Histories == [k \in Keys |-> HistoryOf(k)]

\* C16 as stated: an event whose transcription failed sends exactly one
\* apology: when its handler has ended, one message was delivered.
C16_OneApology ==
    \A i \in 1..Len(handlers) :
        (Finished(handlers[i]) /\ TranscriptionFailed(handlers[i])) => Len(handlers[i].sends) = 1

\* what a handler whose transcription failed has done: no call of runAgent;
\* its messages are the audio apology and, only when that was not delivered,
\* the generic apology; at most one of them is delivered, and none only when
\* both transport calls failed, which rejects the handler
AfterTranscriptionFailure(h) ==
    /\ h.agentCalls = 0
    /\ h.attempts \in {<<"apologizingAudio">>, <<"apologizingAudio", "apologizing">>}
    /\ Finished(h) =>
          \/ h.attempts = <<"apologizingAudio">> /\ h.sends = <<"apologizingAudio">> /\ h.pc = "done"
          \/ h.attempts = <<"apologizingAudio", "apologizing">> /\ h.sends = <<"apologizing">> /\ h.pc = "done"
          \/ h.attempts = <<"apologizingAudio", "apologizing">> /\ h.sends = <<>> /\ h.pc = "rejected"

\* a step of a handler whose transcription failed leaves every history as it is
TranscriptionFailureKeepsHistories ==
    \A i \in 1..Len(handlers) :
        (TranscriptionFailed(handlers'[i]) /\ handlers'[i] # handlers[i]) => Histories' = Histories

\* C16, amended: an event whose transcription failed makes no call of
\* runAgent and leaves every sender's history unchanged; it attempts the audio
\* apology once and, only when that transport call fails, the generic apology
\* once, so at most one apology is delivered, and none when both calls fail.
C16_ApologyThenGenericApology ==
    /\ [](\A i \in 1..Len(handlers) : TranscriptionFailed(handlers[i]) => AfterTranscriptionFailure(handlers[i]))
    /\ [][TranscriptionFailureKeepsHistories]_vars

\* the audio apology was not delivered and the generic apology was
C16_Witness ==
    \E i \in 1..Len(handlers) :
        /\ TranscriptionFailed(handlers[i])
        /\ handlers[i].pc = "done"
        /\ handlers[i].sends = <<"apologizing">>

\* the stages a handler has behind it are in order and none is repeated:
\* at most one call of runAgent, a delivery only after it, nothing but the
\* generic apology after the delivery
StagesInOrder(h) ==
    /\ h.agentCalls <= 1
    /\ h.pc = "reasoning" => h.agentCalls = 1 /\ h.attempts = <<>>
    /\ \A j \in 1..Len(h.attempts) :
          h.attempts[j] = "delivering" => j = 1 /\ h.agentCalls = 1 /\ h.pc # "reasoning"

\* the histories change only in the step in which a handler's call of
\* runAgent has returned and before its delivery call is made: the handler
\* leaves the reasoning for the delivery, and the turn goes to its sender
PersistBetweenReasonAndDeliver ==
    (Histories' # Histories) =>
        \E i \in 1..Len(handlers) :
            /\ handlers[i].pc = "reasoning" /\ handlers[i].attempts = <<>>
            /\ handlers'[i].pc = "delivering" /\ handlers'[i].attempts = <<"delivering">>
            /\ \A k \in Keys \ {handlers[i].from} : HistoryOf(k)' = HistoryOf(k)

\* a handler never goes back: the reasoning is entered from the start or the
\* transcription only, the delivery from the reasoning only, and a handler
\* that has ended stays as it is
NoBranchingBack ==
    \A i \in 1..Len(handlers) :
        /\ (handlers'[i].pc = "reasoning" /\ handlers[i].pc # "reasoning") => handlers[i].pc = "transcribing"
        /\ (handlers'[i].pc = "delivering" /\ handlers[i].pc # "delivering") => handlers[i].pc = "reasoning"
        /\ (handlers'[i].pc = "transcribing") => handlers[i].pc = "transcribing"
        /\ Finished(handlers[i]) => handlers'[i] = handlers[i]

\* C17: the stages of an event run in the order reason, persist, deliver and
\* never go back: the turn is appended only in the step after runAgent has
\* returned and before the first delivery call, each stage runs at most once,
\* and an event whose reasoning fails changes no history.
C17_StagesInOrder ==
    /\ [](\A i \in 1..Len(handlers) : StagesInOrder(handlers[i]))
    /\ [][PersistBetweenReasonAndDeliver /\ NoBranchingBack]_vars

\* one event's reasoning failed and another's turn was stored and delivered
C17_Witness ==
    \E i, j \in 1..Len(handlers) :
        /\ handlers[i].agentCalls = 1 /\ handlers[i].attempts = <<"apologizing">>
        /\ handlers[j].pc = "done" /\ handlers[j].sends = <<"delivering">>
        /\ HistoryOf(handlers[j].from) # <<>>

\* the reasoning call of the handler failed
ReasoningFailed(h) == h.agentCalls = 1 /\ h.pc # "reasoning" /\ "delivering" \notin {h.attempts[j] : j \in 1..Len(h.attempts)}

\* a transport call of the handler failed: a message it gave to
\* sendWhatsAppMessage before its last one, or its last one when the handler
\* was rejected, was not delivered
SendFailed(h) == Len(h.attempts) > Len(h.sends) + (IF h.pc \in SendingPcs THEN 1 ELSE 0)

\* after a failure the handler attempts the generic apology, once and as its
\* last message, and then ends: resolved when the apology was delivered,
\* rejected (and logged) when it was not
OneApologyThenStop(h) ==
    (ReasoningFailed(h) \/ SendFailed(h)) =>
        /\ h.attempts[Len(h.attempts)] = "apologizing"
        /\ \A j \in 1..(Len(h.attempts) - 1) : h.attempts[j] # "apologizing"
        /\ h.pc \in {"apologizing", "done", "rejected"}
        /\ h.pc = "done" => h.sends = <<"apologizing">>
        /\ h.pc = "rejected" => h.sends = <<>>

\* C18: when the reasoning call or a delivery of an event fails, its handler
\* attempts the generic apology once and stops; the failure, and that of the
\* apology, changes nothing in the webhook's response, which stays the one
\* acknowledgment.  (The history append cannot fail.)
C18_OneGenericApology ==
    \A i \in 1..Len(handlers) :
        /\ OneApologyThenStop(handlers[i])
        /\ handlers[i].pc = "rejected" => SendFailed(handlers[i])
        /\ handlers[i].acks = <<AckBody>>

\* a delivery failed and so did the apology; another event's reasoning
\* failed and its apology was delivered
C18_Witness ==
    \E i, j \in 1..Len(handlers) :
        /\ handlers[i].pc = "rejected" /\ handlers[i].attempts = <<"delivering", "apologizing">>
        /\ handlers[j].pc = "done" /\ ReasoningFailed(handlers[j])

-----------------------------------------------------------------------------
(* Claims about the trigger endpoints *)

\* the secrets the request supplies, in its header or its query parameter
Supplied(req) == {req.header, req.query} \ {Undefined, ""}

\* the request supplies a secret, and no secret it supplies is the configured one
Mismatch(req) == Supplied(req) # {} /\ env.CRON_SECRET \notin Supplied(req)

\* the step answers a request to a trigger endpoint
CronRequest == last'.request.path # ""

\* the step changes nothing but the record of the request and its answer
NoSideEffects == UNCHANGED <<now, remVars, chatVars, sendVars, cronVars, toolVars>>

\* C20: a request to a trigger endpoint whose supplied secret, header or
\* query parameter, is not the configured one is answered 401, and a request
\* answered 401 has no side effects: no run of processPendingReminders or
\* sendDailyReminders starts, no reminder, sent flag or history changes and no
\* message is sent.
C20_MismatchIs401NoSideEffects ==
    [][CronRequest =>
          /\ Mismatch(last'.request) => last'.request.status = 401
          /\ last'.request.status = 401 => NoSideEffects]_vars

\* a request with a wrong secret was answered 401 while a reminder is due
\* and unsent
C20_Witness ==
    /\ last.request.path = "/cron/reminders"
    /\ last.request.status = 401
    /\ last.request.header = "wrong"
    /\ env.CRON_SECRET = "s3cret"
    /\ getPendingReminders(reminders, now) # <<>>

-----------------------------------------------------------------------------
(* Claims about processPendingReminders *)

\* the reminder objects in the store whose sent flag is set
SentObjs(m) == {m[k].obj : k \in {j \in 1..Len(m) : m[j].sent}}

\* a reminder object gets its sent flag only in the step in which the
\* delivery of that very reminder has succeeded
MarkedOnlyWhenDelivered ==
    \A o \in SentObjs(reminders') \ SentObjs(reminders) : sentCount'[o] = sentCount[o] + 1

\* a failed delivery changes no reminder, and the run goes on with the next
\* reminder of its snapshot or returns when there is none
FailedDeliveryKeepsStore ==
    (last'.op = "delivery" /\ ~last'.success) =>
        /\ reminders' = reminders
        /\ \E r \in 1..Len(runs) :
              /\ runs[r].pc = "sending"
              /\ runs'[r] = RunAdvance(runs[r])
              /\ runs[r].i < Len(runs[r].pending) => runs'[r].pc = "sending"

\* C21: during reminder processing a reminder is marked sent only after its
\* own delivery call has succeeded; a failed delivery leaves the reminder
\* unsent, and the run goes on with the remaining reminders.
C21_MarkOnlyAfterDelivery == [][MarkedOnlyWhenDelivered /\ FailedDeliveryKeepsStore]_vars

\* the step was the scan of a run that follows at once a run of which every
\* delivery succeeded, at the clock of that run's scan and with no
\* set_reminder call since that scan
FollowsSuccessfulRun ==
    /\ last.op = "processPendingReminders"
    /\ last.prev.returned
    /\ last.prev.delivered = last.prev.count
    /\ last.prev.at = now
    /\ last.prev.calls0 = calls

\* C22: a run that follows at once a run in which every delivery succeeded,
\* at the same clock and with no reminder created in between, finds nothing
\* pending, delivers nothing and returns 0.
C22_SecondRunReturnsZero ==
    FollowsSuccessfulRun =>
        /\ last.pending = <<>>
        /\ last.returned
        /\ last.count = 0
        /\ last.run.delivered = 0

\* the run before delivered a reminder, and the run after it has returned
C22_Witness == FollowsSuccessfulRun /\ last.prev.count >= 1 /\ last.returned

-----------------------------------------------------------------------------
(* Claims about concurrent events *)

\* C23: in the history of a sender the entries of an event that was
\* dispatched earlier precede those of an event dispatched later (the content
\* of an entry is the number of its event, given in dispatch order).
C23_DispatchOrder ==
    \A k \in Keys :
        \A i, j \in 1..Len(HistoryOf(k)) :
            i < j => HistoryOf(k)[i].content <= HistoryOf(k)[j].content

\* the stored reminder was created after the scan of the run: its object is
\* that of a set_reminder call later than the calls counted at the scan
CreatedDuring(reminder, run) == reminder.obj > run.calls0

\* C24: a step of a run of processPendingReminders, the settling of one of
\* its deliveries, leaves every reminder that was created after the run's
\* scan as it is, stored and unsent, and sets the sent flag of no reminder
\* but the one it has just delivered.
C24_RunKeepsNewReminders ==
    [][\A r \in 1..Len(runs) :
          (runs[r].pc = "sending" /\ runs'[r] # runs[r]) =>
              /\ \A k \in 1..Len(reminders) :
                    CreatedDuring(reminders[k], runs[r]) => reminders'[k] = reminders[k]
              /\ SentObjs(reminders') \ SentObjs(reminders) \subseteq {runs[r].pending[runs[r].i].obj}]_vars

\* the tool functions the reasoning loop calls
ToolOps ==
    {"set_reminder", "web_search", "create_calendar_event", "get_todays_events",
     "get_upcoming_events", "save_note", "get_notes"}

\* an error was raised inside the body of the tool call just made; in
\* set_reminder the one that can be raised is the RangeError of format
ToolFailed ==
    IF last.op = "set_reminder" THEN FormatThrows(TriggerAt(last.args, last.base)) ELSE last.failed

\* the call just made returned the failure payload
FailurePayloadReturned ==
    /\ ~last.success
    /\ last.error # ""
    /\ last.op # "set_reminder" => last.keys = {"success", "error"}

\* C25: no call of a tool function throws; a call inside which an error was
\* raised returns a payload with success = false and an error; web_search
\* without a configured API key returns that payload and makes no request.
C25_ToolsNeverThrow ==
    /\ [](last.op \in ToolOps =>
             /\ ~last.threw
             /\ ToolFailed => FailurePayloadReturned
             /\ (last.op = "web_search" /\ ~HasApiKey(env.TAVILY_API_KEY)) => FailurePayloadReturned)
    /\ [][(last'.op = "web_search" /\ ~HasApiKey(env.TAVILY_API_KEY)) => remoteCalls' = remoteCalls]_vars

\* web_search was called without a key after a calendar request was made
C25_Witness ==
    /\ last.op = "web_search"
    /\ env.TAVILY_API_KEY = Undefined
    /\ FailurePayloadReturned
    /\ remoteCalls >= 1

\* C26: the count a run of processPendingReminders returns is the number of
\* reminders the run delivered and marked.
C26_CountIsDelivered ==
    (last.op \in {"processPendingReminders", "delivery"} /\ last.run.returned) =>
        last.run.count = last.run.delivered

\* C27: a set_reminder call that returns the failure payload leaves the Map
\* `reminders` as it was: nothing added, replaced or modified.
C27_FailedCreationKeepsStore ==
    [][(last'.op = "set_reminder" /\ ~last'.success) => reminders' = reminders]_vars

\* set_reminder has just returned success for the reminder object o
CreatedWithSuccess(o) == last.op = "set_reminder" /\ last.success /\ nextObj = o + 1

\* the message of the reminder object o was accepted by the transport and
\* the object is stored with sent = true
DeliveredAndMarked(o) ==
    /\ o <= Len(sentCount)
    /\ sentCount[o] >= 1
    /\ \E k \in 1..Len(reminders) : reminders[k].obj = o /\ reminders[k].sent

\* C28: with the trigger invoked again and again and a transport that does
\* not reject a message for ever, every reminder for which set_reminder
\* returned success is eventually delivered and marked sent.
C28_EventuallyDelivered ==
    \A o \in 1..MaxOps : CreatedWithSuccess(o) ~> DeliveredAndMarked(o)

\* the entries of history h
EntriesOf(h) == {h[j] : j \in 1..Len(h)}

\* entry e leaves the history of sender k in this step by the trim of lines
\* 91-93: a turn is pushed on a full history and e is one of its two oldest
EvictedByTrim(k, e) ==
    /\ Len(HistoryOf(k)) = MAX_HISTORY
    /\ e \in {HistoryOf(k)[1], HistoryOf(k)[2]}
    /\ HistoryOf(k)' = Trim(HistoryOf(k) \o LastEntries(turnLog'[k], 2))

\* C29: the two entries an event pushes are in the history stored for its
\* sender after the step, and an entry leaves the stored history of a sender
\* only by the trim to 20 entries, also when the handlers of two events of
\* the sender run concurrently.
C29_NoTurnLost ==
    [][\A k \in Keys :
          /\ turnLog'[k] # turnLog[k] =>
                 EntriesOf(LastEntries(turnLog'[k], 2)) \subseteq EntriesOf(HistoryOf(k)')
          /\ \A e \in EntriesOf(HistoryOf(k)) \ EntriesOf(HistoryOf(k)') : EvictedByTrim(k, e)]_vars

\* C30: for a non-empty text no chunk of splitMessage is empty, and
\* sendWhatsAppMessage makes no transport call with an empty body.
C30_NoEmptyChunk ==
    out.message # <<>> =>
        /\ \A j \in 1..Len(out.chunks) : out.chunks[j] # <<>>
        /\ \A j \in 1..Len(out.transport) : out.transport[j].body # <<>>

\* the request carries neither the x-cron-secret header nor the secret
\* query parameter
NoSecret(req) == req.header = Undefined /\ req.query = Undefined

\* C31: a request to a trigger endpoint that carries no secret is answered
\* 401 and starts no run of processPendingReminders or sendDailyReminders,
\* whether CRON_SECRET is configured or not.
C31_NoSecretNeverRuns ==
    [][(CronRequest /\ NoSecret(last'.request)) =>
           /\ last'.request.status = 401
           /\ runs' = runs
           /\ summaries' = summaries]_vars

=============================================================================
